---- MODULE Spec2Model ----
(***************************************************************************)
(* Context-aware interruption handler                                      *)
(* (livekit/agents/voice/interruption_handler_mrinank.py).                 *)
(*                                                                         *)
(* A Python str is a sequence of one-character strings; the model's        *)
(* characters are ASCII.  A transcript argument is a record               *)
(* [none, text]: none = TRUE is Python's None, otherwise text is the str.  *)
(* A word (token, ignore-list entry) is a sequence of characters.          *)
(***************************************************************************)
EXTENDS Integers, Sequences, FiniteSets, TLC

VARIABLES
    handler,            \* the InterruptionHandler: [config, _ignore_list_lower]
    pc,                 \* the caller: "idle" or "returned" (a call has just ended)
    op,                 \* the method of the call that has just ended
    transcript,         \* its transcript argument
    agent_is_speaking,  \* its agent_is_speaking argument
    verdict,            \* the boolean should_ignore_interrupt returned
    reason,             \* the reason code get_interrupt_reason returned
    raised,             \* the exception the call raised, "" when it returned
    supplied,           \* SpecUpdate: the ignore list most recently supplied
    earlier,            \* SpecUpdate: the ignore list in effect before it
    siblings,           \* SpecShared: the _ignore_list_lower of each other
                        \* handler constructed from the object handler.config
    reader,             \* SpecConc: the thread inside a classification call
    updater,            \* SpecConc: the thread inside update_ignore_list
    callers,            \* SpecOverlap: each thread inside a classification call
    default_handler,    \* SpecDefault: the module's global _default_handler
    getters,            \* SpecDefault: each thread inside get_default_handler
    created,            \* SpecDefault: the handlers get_default_handler created
    installed           \* SpecDefault: the handler set_default_handler was
                        \* last given

\* the variables of the other specifications, which the actions of Spec keep
history == <<supplied, earlier>>
threads == <<reader, updater, callers>>
globals == <<default_handler, getters, created, installed>>
aux == <<history, siblings, threads, globals>>

vars == <<handler, pc, op, transcript, agent_is_speaking, verdict, reason, raised,
          aux>>

----------------------------------------------------------------------------
(* Bounds *)

\* the longest transcript drawn from Alphabet (the named transcripts are longer)
MaxLen == 3

\* the most handlers constructed from the configuration object of the first
MaxSiblings == 1

\* the most handlers get_default_handler creates
MaxCreated == 2

----------------------------------------------------------------------------
(* Characters and str methods *)

UpperCase == <<"A", "B", "C", "D", "E", "F", "G", "H", "I", "J", "K", "L", "M",
               "N", "O", "P", "Q", "R", "S", "T", "U", "V", "W", "X", "Y", "Z">>
LowerCase == <<"a", "b", "c", "d", "e", "f", "g", "h", "i", "j", "k", "l", "m",
               "n", "o", "p", "q", "r", "s", "t", "u", "v", "w", "x", "y", "z">>
Digits == {"0", "1", "2", "3", "4", "5", "6", "7", "8", "9"}
\* whitespace characters that have no escape in a string: U+000B, U+001C to
\* U+001F, U+0085, U+00A0 and U+1680, written as the characters themselves
VT == ""
FS == ""
GS == ""
RS == ""
US == ""
NEL == ""
NBSP == " "
OghamSpace == " "

\* the characters str.strip() removes: all those of ASCII and, of the others,
\* those a string of this module can hold (Python also removes U+2000 to
\* U+200A, U+2028, U+2029, U+202F, U+205F and U+3000)
Whitespace ==
    {" ", "\t", "\n", "\f", "\r", VT, FS, GS, RS, US, NEL, NBSP, OghamSpace}

Range(s) == {s[i] : i \in 1..Len(s)}

\* a letter outside ASCII: "ß".upper() is "SS", and "SS".lower() is "ss"
SharpS == "ß"

\* str.lower() on one character ("ß" is its own lower case)
lower_char(c) ==
    IF \E i \in 1..26 : UpperCase[i] = c
    THEN LowerCase[CHOOSE i \in 1..26 : UpperCase[i] = c]
    ELSE c

\* str.lower()
lower(s) == [i \in 1..Len(s) |-> lower_char(s[i])]

\* str.strip(): drop the leading and the trailing whitespace
RECURSIVE lstrip(_)
lstrip(s) ==
    IF s # <<>> /\ Head(s) \in Whitespace THEN lstrip(Tail(s)) ELSE s

RECURSIVE rstrip(_)
rstrip(s) ==
    IF s # <<>> /\ s[Len(s)] \in Whitespace
    THEN rstrip(SubSeq(s, 1, Len(s) - 1))
    ELSE s

strip(s) == rstrip(lstrip(s))

\* str.upper() on one character: a str, of two characters for "ß"
upper_char(c) ==
    IF \E i \in 1..26 : LowerCase[i] = c
    THEN <<UpperCase[CHOOSE i \in 1..26 : LowerCase[i] = c]>>
    ELSE IF c = SharpS THEN <<"S", "S">>
    ELSE <<c>>

\* str.upper()
RECURSIVE upper(_)
upper(s) == IF s = <<>> THEN <<>> ELSE upper_char(Head(s)) \o upper(Tail(s))

\* the regular expression class \w (of a str pattern: Unicode letters too)
is_word_char(c) ==
    \/ c \in Range(LowerCase)
    \/ c \in Range(UpperCase)
    \/ c \in Digits
    \/ c = "_"
    \/ c = SharpS

\* re.findall(r'\b\w+\b', s): the maximal runs of \w characters, left to right.
\* cur is the run being read, acc the runs already closed.
RECURSIVE findall_scan(_, _, _, _)
findall_scan(s, i, cur, acc) ==
    IF i > Len(s)
    THEN IF cur = <<>> THEN acc ELSE Append(acc, cur)
    ELSE IF is_word_char(s[i])
         THEN findall_scan(s, i + 1, Append(cur, s[i]), acc)
         ELSE findall_scan(s, i + 1, <<>>,
                           IF cur = <<>> THEN acc ELSE Append(acc, cur))

findall_words(s) == findall_scan(s, 1, <<>>, <<>>)

----------------------------------------------------------------------------
(* Python values *)

None == [none |-> TRUE, text |-> <<>>]
Str(s) == [none |-> FALSE, text |-> s]

\* Python truthiness of a transcript: None and "" are falsy
truthy(t) == ~t.none /\ t.text # <<>>

----------------------------------------------------------------------------
(* Words and transcripts of the tests *)

W_yeah == <<"y", "e", "a", "h">>
W_ok == <<"o", "k">>
W_okay == <<"o", "k", "a", "y">>
W_hmm == <<"h", "m", "m">>
W_right == <<"r", "i", "g", "h", "t">>
W_uh_huh == <<"u", "h", "-", "h", "u", "h">>
W_huh == <<"h", "u", "h">>
W_uh == <<"u", "h">>
W_Yeah_padded == <<" ", "Y", "e", "a", "h", " ">>
W_Hmm_padded == <<VT, "\r", "H", "m", "m", "\f", FS>>
W_OK == <<"O", "K">>
W_weiss == <<"w", "e", "i", "ß">>

T_yeah == <<"y", "e", "a", "h">>
T_YEAH_OK_HMM == <<"Y", "E", "A", "H", " ", "O", "K", " ", "H", "M", "M">>
T_yeah_okay == <<"y", "e", "a", "h", " ", "o", "k", "a", "y">>
T_uh_huh == <<"u", "h", "-", "h", "u", "h">>
T_okay_yeah_uh_huh == <<"o", "k", "a", "y", " ", "y", "e", "a", "h", " ",
                        "u", "h", "-", "h", "u", "h">>
T_no_stop == <<"n", "o", " ", "s", "t", "o", "p">>
T_yeah_okay_but_wait == <<"y", "e", "a", "h", " ", "o", "k", "a", "y", " ",
                          "b", "u", "t", " ", "w", "a", "i", "t">>
T_dots == <<".", ".", ".">>
T_Yeah_okay_Hmm == <<"Y", "e", "a", "h", ",", " ", "o", "k", "a", "y", "!", " ",
                     "H", "m", "m", "?">>
T_weiss == <<"w", "e", "i", "ß">>
T_WEISS == <<"W", "E", "I", "S", "S">>

\* InterruptionHandlerConfig.ignore_list's default
DefaultIgnoreList ==
    <<W_yeah, W_ok, W_okay, W_hmm, W_right, W_uh_huh, W_huh, W_uh>>

\* the ignore list of test_scenario_1_long_explanation
Scenario1IgnoreList == <<W_yeah, W_ok, W_okay, W_hmm, W_right, W_uh_huh>>

\* the ignore lists a handler is constructed with or updated to
IgnoreLists ==
    { DefaultIgnoreList,
      Scenario1IgnoreList,
      <<>>,
      <<W_uh>>,
      <<W_huh>>,
      <<W_uh, W_huh>>,
      <<W_huh, W_uh, W_uh_huh>>,
      <<W_uh_huh>>,
      <<W_Yeah_padded, W_OK, W_Hmm_padded>>,
      <<W_weiss>> }

\* the characters of the generated transcripts
Alphabet == {"u", "h", "U", "-", " "}

RECURSIVE TextsUpTo(_)
TextsUpTo(n) ==
    IF n = 0 THEN {<<>>}
    ELSE LET shorter == TextsUpTo(n - 1)
         IN  shorter \cup {Append(s, c) : s \in shorter, c \in Alphabet}

NamedTexts ==
    { T_yeah, T_YEAH_OK_HMM, T_yeah_okay, T_uh_huh, T_okay_yeah_uh_huh, T_no_stop,
      T_yeah_okay_but_wait, T_dots, T_Yeah_okay_Hmm, T_weiss, T_WEISS }

\* the transcript arguments of a call
Transcripts == {Str(s) : s \in TextsUpTo(MaxLen) \cup NamedTexts} \cup {None}

\* the current_agent_state arguments of a call
AgentStates == {"None", "speaking", "listening"}

----------------------------------------------------------------------------
(* The reason codes of get_interrupt_reason *)

EmptyTranscript == "empty_transcript"
ContainsSemanticContent == "contains_semantic_content"
IgnoredAgentSpeaking == "passive_acknowledgement_ignored_agent_speaking"
AgentSilent == "passive_acknowledgement_agent_silent"

ReasonCodes ==
    {EmptyTranscript, ContainsSemanticContent, IgnoredAgentSpeaking, AgentSilent}

----------------------------------------------------------------------------
(* InterruptionHandler *)

\* InterruptionHandlerConfig.min_interrupt_words's default
DefaultMinInterruptWords == 1

\* InterruptionHandlerConfig(ignore_list = l, enabled = e): the other two
\* fields take their defaults
InterruptionHandlerConfig(l, e) ==
    [ ignore_list |-> l,
      enabled |-> e,
      min_interrupt_words |-> DefaultMinInterruptWords,
      verbose_logging |-> FALSE ]

\* InterruptionHandlerConfig(l, e, min_interrupt_words = m, verbose_logging = v)
InterruptionHandlerConfigFull(l, e, m, v) ==
    [ ignore_list |-> l,
      enabled |-> e,
      min_interrupt_words |-> m,
      verbose_logging |-> v ]

\* an ignore-list element that is not a str: the int 5
NotStr == <<"<int 5>">>

\* _normalize_ignore_list raises: word.lower() on an element that is no str
_normalize_ignore_list_raised(config) ==
    IF \E i \in 1..Len(config.ignore_list) : config.ignore_list[i] = NotStr
    THEN "AttributeError"
    ELSE ""

\* _normalize_ignore_list: the value it assigns to self._ignore_list_lower
_normalize_ignore_list(config) ==
    {strip(lower(config.ignore_list[i])) : i \in 1..Len(config.ignore_list)}

\* InterruptionHandler(config)
InterruptionHandler(config) ==
    [config |-> config, _ignore_list_lower |-> _normalize_ignore_list(config)]

\* str.split(): the maximal runs of characters that are not whitespace
RECURSIVE split_scan(_, _, _, _)
split_scan(s, i, cur, acc) ==
    IF i > Len(s)
    THEN IF cur = <<>> THEN acc ELSE Append(acc, cur)
    ELSE IF s[i] \notin Whitespace
         THEN split_scan(s, i + 1, Append(cur, s[i]), acc)
         ELSE split_scan(s, i + 1, <<>>,
                         IF cur = <<>> THEN acc ELSE Append(acc, cur))

\* _extract_words splitting on whitespace only: text.lower().split()
_extract_words_split(text) ==
    IF text.none
    THEN [raised |-> "AttributeError", words |-> <<>>]
    ELSE [raised |-> "", words |-> split_scan(lower(text.text), 1, <<>>, <<>>)]

\* _extract_words without text.lower()
_extract_words_no_lower(text) ==
    IF text.none
    THEN [raised |-> "AttributeError", words |-> <<>>]
    ELSE [raised |-> "", words |-> findall_words(text.text)]

\* _extract_words: [raised, words]; text.lower() on None raises AttributeError
_extract_words(text) ==
    IF text.none
    THEN [raised |-> "AttributeError", words |-> <<>>]
    ELSE [raised |-> "", words |-> findall_words(lower(text.text))]

\* _has_non_filler_words: the for loop, from the word at index i on
RECURSIVE has_non_filler_from(_, _, _)
has_non_filler_from(self, words, i) ==
    IF i > Len(words) THEN FALSE
    ELSE IF words[i] \notin self._ignore_list_lower THEN TRUE
    ELSE has_non_filler_from(self, words, i + 1)

\* _has_non_filler_words returning from the loop's first iteration
_has_non_filler_words_first(self, words) ==
    IF words = <<>> THEN FALSE ELSE words[1] \notin self._ignore_list_lower

\* _has_non_filler_words skipping the loop when the filler set is empty
_has_non_filler_words_empty_set(self, words) ==
    IF self._ignore_list_lower = {} THEN FALSE
    ELSE has_non_filler_from(self, words, 1)

_has_non_filler_words(self, words) == has_non_filler_from(self, words, 1)

\* should_ignore_interrupt with the agent_is_speaking test inverted
should_ignore_interrupt_inverted(self, t, speaking, current_agent_state) ==
    IF ~self.config.enabled \/ ~truthy(t) THEN FALSE
    ELSE LET words == _extract_words(t).words
         IN  IF _has_non_filler_words(self, words) THEN FALSE
             ELSE IF words = <<>> THEN FALSE
             ELSE IF speaking THEN FALSE
             ELSE TRUE

\* should_ignore_interrupt without the agent_is_speaking test
should_ignore_interrupt_always(self, t, speaking, current_agent_state) ==
    IF ~self.config.enabled \/ ~truthy(t) THEN FALSE
    ELSE LET words == _extract_words(t).words
         IN  IF _has_non_filler_words(self, words) THEN FALSE
             ELSE IF words = <<>> THEN FALSE
             ELSE TRUE

\* should_ignore_interrupt without the test for an empty word list
should_ignore_interrupt_no_empty_test(self, t, speaking, current_agent_state) ==
    IF ~self.config.enabled \/ ~truthy(t) THEN FALSE
    ELSE LET words == _extract_words(t).words
         IN  IF _has_non_filler_words(self, words) THEN FALSE
             ELSE IF speaking THEN TRUE
             ELSE FALSE

\* should_ignore_interrupt without the test of config.enabled
should_ignore_interrupt_no_enabled_test(self, t, speaking, current_agent_state) ==
    IF ~truthy(t) THEN FALSE
    ELSE LET words == _extract_words(t).words
         IN  IF _has_non_filler_words(self, words) THEN FALSE
             ELSE IF words = <<>> THEN FALSE
             ELSE IF speaking THEN TRUE
             ELSE FALSE

\* should_ignore_interrupt with min_interrupt_words wired in: more words than
\* the threshold always interrupt
should_ignore_interrupt_min_words(self, t, speaking, current_agent_state) ==
    IF ~self.config.enabled \/ ~truthy(t) THEN FALSE
    ELSE LET words == _extract_words(t).words
         IN  IF _has_non_filler_words(self, words) THEN FALSE
             ELSE IF words = <<>> THEN FALSE
             ELSE IF Len(words) > self.config.min_interrupt_words THEN FALSE
             ELSE IF speaking THEN TRUE
             ELSE FALSE

\* should_ignore_interrupt: the boolean it returns
should_ignore_interrupt(self, t, speaking, current_agent_state) ==
    IF ~self.config.enabled \/ ~truthy(t) THEN FALSE
    ELSE LET words == _extract_words(t).words
         IN  IF _has_non_filler_words(self, words) THEN FALSE
             ELSE IF words = <<>> THEN FALSE
             ELSE IF speaking THEN TRUE
             ELSE FALSE

\* should_ignore_interrupt learning the words it ignores: it adds them to
\* self._ignore_list_lower
should_ignore_interrupt_self_learning(self, t, speaking, current_agent_state) ==
    IF truthy(t)
    THEN [self EXCEPT !._ignore_list_lower = @ \cup Range(_extract_words(t).words)]
    ELSE self

\* should_ignore_interrupt: the handler after the call (no attribute of self
\* or of self._config is assigned)
should_ignore_interrupt_self(self, t, speaking, current_agent_state) == self

\* get_interrupt_reason: the handler after the call (no attribute is assigned)
get_interrupt_reason_self(self, t, speaking) == self

\* get_interrupt_reason with the two passive_acknowledgement codes exchanged
get_interrupt_reason_exchanged(self, t, speaking) ==
    LET extracted == _extract_words(t)
        words == extracted.words
    IN  IF extracted.raised # "" THEN [raised |-> extracted.raised, reason |-> ""]
        ELSE IF words = <<>> THEN [raised |-> "", reason |-> EmptyTranscript]
        ELSE IF _has_non_filler_words(self, words)
             THEN [raised |-> "", reason |-> ContainsSemanticContent]
        ELSE IF speaking THEN [raised |-> "", reason |-> AgentSilent]
        ELSE [raised |-> "", reason |-> IgnoredAgentSpeaking]

\* get_interrupt_reason: [raised, reason]
get_interrupt_reason(self, t, speaking) ==
    LET extracted == _extract_words(t)
        words == extracted.words
    IN  IF extracted.raised # "" THEN [raised |-> extracted.raised, reason |-> ""]
        ELSE IF words = <<>> THEN [raised |-> "", reason |-> EmptyTranscript]
        ELSE IF _has_non_filler_words(self, words)
             THEN [raised |-> "", reason |-> ContainsSemanticContent]
        ELSE IF speaking THEN [raised |-> "", reason |-> IgnoredAgentSpeaking]
        ELSE [raised |-> "", reason |-> AgentSilent]

\* update_ignore_list adding the new words to the normalized set
update_ignore_list_merge(self, new_ignore_list) ==
    LET config == [self.config EXCEPT !.ignore_list = new_ignore_list]
    IN  [config |-> config,
         _ignore_list_lower |->
             self._ignore_list_lower \cup _normalize_ignore_list(config)]

\* update_ignore_list: the handler after the call. The list is assigned
\* first; when the normalization raises, self._ignore_list_lower is not assigned.
update_ignore_list(self, new_ignore_list) ==
    LET config == [self.config EXCEPT !.ignore_list = new_ignore_list]
    IN  IF _normalize_ignore_list_raised(config) # ""
        THEN [config |-> config, _ignore_list_lower |-> self._ignore_list_lower]
        ELSE [config |-> config,
              _ignore_list_lower |-> _normalize_ignore_list(config)]

\* update_ignore_list: the exception it raises, "" when it returns
update_ignore_list_raised(self, new_ignore_list) ==
    _normalize_ignore_list_raised(
        [self.config EXCEPT !.ignore_list = new_ignore_list])

----------------------------------------------------------------------------
(* InterruptionHandlerStandalone, the reference implementation of the tests *)

\* InterruptionHandlerStandalone(ignore_list)
InterruptionHandlerStandalone(ignore_list) ==
    [_ignore_list_lower |->
        {strip(lower(ignore_list[i])) : i \in 1..Len(ignore_list)}]

\* InterruptionHandlerStandalone._extract_words (of a str)
standalone_extract_words(text) == findall_words(lower(text.text))

\* InterruptionHandlerStandalone._has_non_filler_words: the for loop from i on
RECURSIVE standalone_has_non_filler_from(_, _, _)
standalone_has_non_filler_from(self, words, i) ==
    IF i > Len(words) THEN FALSE
    ELSE IF words[i] \notin self._ignore_list_lower THEN TRUE
    ELSE standalone_has_non_filler_from(self, words, i + 1)

\* InterruptionHandlerStandalone.should_ignore_interrupt: the empty word list
\* is tested before the non-filler words
standalone_should_ignore_interrupt(self, t, speaking) ==
    IF ~truthy(t) THEN FALSE
    ELSE LET words == standalone_extract_words(t)
         IN  IF words = <<>> THEN FALSE
             ELSE IF standalone_has_non_filler_from(self, words, 1) THEN FALSE
             ELSE IF speaking THEN TRUE
             ELSE FALSE

----------------------------------------------------------------------------
(* The state machine: one handler and the host that calls it *)

\* no call has been made
HostIdle ==
    /\ pc = "idle"
    /\ op = ""
    /\ transcript = None
    /\ agent_is_speaking = FALSE
    /\ verdict = FALSE
    /\ reason = ""
    /\ raised = ""

\* the ignore lists are not tracked
NoHistory == supplied = <<>> /\ earlier = <<>>

\* no other handler shares the configuration object
Unshared == siblings = <<>>

\* a thread that is in no call
IdleReader ==
    [pc |-> "idle", op |-> "", t |-> None, s |-> FALSE, early |-> FALSE,
     words |-> <<>>, i |-> 0, found |-> FALSE, seen |-> {}]

IdleUpdater == [pc |-> "idle"]

\* the threads that make classification calls at the same time
Callers == {1, 2}

\* a caller that is in no call; overlapped tells that another caller was
\* inside a call during a step of this one's
IdleCaller ==
    [pc |-> "idle", op |-> "", t |-> None, s |-> FALSE, early |-> FALSE,
     words |-> <<>>, i |-> 0, found |-> FALSE, verdict |-> FALSE,
     reason |-> "", overlapped |-> FALSE]

\* no other thread uses the handler
SingleThreaded ==
    /\ reader = IdleReader
    /\ updater = IdleUpdater
    /\ callers = [c \in Callers |-> IdleCaller]

\* handler objects by identity: None, the n-th one get_default_handler
\* created, the n-th one of the host
NoneHandler == [by |-> "", n |-> 0]
Lazy(n) == [by |-> "get_default_handler", n |-> n]
Host(n) == [by |-> "host", n |-> n]

\* the handlers the host passes to set_default_handler
HostHandlers == {Host(1), Host(2)}

\* the threads that call get_default_handler
Getters == {1, 2}

\* a thread that is in no call; result is what its last call returned
IdleGetter == [pc |-> "idle", result |-> NoneHandler]

\* the module has just been imported: _default_handler = None
ModuleLoaded ==
    /\ default_handler = NoneHandler
    /\ getters = [t \in Getters |-> IdleGetter]
    /\ created = 0
    /\ installed = NoneHandler

Init ==
    /\ handler \in {InterruptionHandler(InterruptionHandlerConfig(l, e)) :
                        l \in IgnoreLists, e \in BOOLEAN}
    /\ HostIdle
    /\ NoHistory
    /\ Unshared
    /\ SingleThreaded
    /\ ModuleLoaded

\* the host calls handler.should_ignore_interrupt(t, s, a)
CallShouldIgnoreInterrupt ==
    /\ pc = "idle"
    /\ \E t \in Transcripts, s \in BOOLEAN, a \in AgentStates :
          /\ transcript' = t
          /\ agent_is_speaking' = s
          /\ verdict' = should_ignore_interrupt(handler, t, s, a)
          /\ handler' = should_ignore_interrupt_self(handler, t, s, a)
    /\ op' = "should_ignore_interrupt"
    /\ reason' = ""
    /\ raised' = ""
    /\ pc' = "returned"
    /\ UNCHANGED aux

\* the host calls handler.get_interrupt_reason(t, s)
CallGetInterruptReason ==
    /\ pc = "idle"
    /\ \E t \in Transcripts, s \in BOOLEAN :
          /\ transcript' = t
          /\ agent_is_speaking' = s
          /\ reason' = get_interrupt_reason(handler, t, s).reason
          /\ raised' = get_interrupt_reason(handler, t, s).raised
          /\ handler' = get_interrupt_reason_self(handler, t, s)
    /\ op' = "get_interrupt_reason"
    /\ verdict' = FALSE
    /\ pc' = "returned"
    /\ UNCHANGED aux

\* the host calls handler.update_ignore_list(l)
UpdateIgnoreList(l) ==
    /\ pc = "idle"
    /\ handler' = update_ignore_list(handler, l)
    /\ UNCHANGED <<pc, op, transcript, agent_is_speaking, verdict, reason, raised>>

CallUpdateIgnoreList ==
    /\ \E l \in IgnoreLists : UpdateIgnoreList(l)
    /\ UNCHANGED aux

\* the host assigns config.enabled
SetEnabled ==
    /\ pc = "idle"
    /\ \E e \in BOOLEAN : handler' = [handler EXCEPT !.config.enabled = e]
    /\ UNCHANGED <<pc, op, transcript, agent_is_speaking, verdict, reason, raised>>
    /\ UNCHANGED aux

\* the host has taken the result of the call and is ready for the next one
Resume ==
    /\ pc = "returned"
    /\ pc' = "idle"
    /\ op' = ""
    /\ transcript' = None
    /\ agent_is_speaking' = FALSE
    /\ verdict' = FALSE
    /\ reason' = ""
    /\ raised' = ""
    /\ UNCHANGED handler
    /\ UNCHANGED aux

Next ==
    \/ CallShouldIgnoreInterrupt
    \/ CallGetInterruptReason
    \/ CallUpdateIgnoreList
    \/ SetEnabled
    \/ Resume

Spec == Init /\ [][Next]_vars

\* the min_interrupt_words values a config is constructed with
MinInterruptWords == {0, 1, 3}

\* the same host, the handler constructed from a config with any
\* min_interrupt_words and verbose_logging
InitConfig ==
    /\ handler \in {InterruptionHandler(InterruptionHandlerConfigFull(l, e, m, v)) :
                        l \in IgnoreLists, e \in BOOLEAN,
                        m \in MinInterruptWords, v \in BOOLEAN}
    /\ HostIdle
    /\ NoHistory
    /\ Unshared
    /\ SingleThreaded
    /\ ModuleLoaded

SpecConfig == InitConfig /\ [][Next]_vars

----------------------------------------------------------------------------
(* The same host, also passing lists that hold an element that is no str *)

\* the lists whose normalization raises
BadLists == {<<NotStr>>, <<W_ok, NotStr>>}

\* the host calls handler.update_ignore_list(l), and the call raises
CallUpdateIgnoreListRaising ==
    /\ pc = "idle"
    /\ \E l \in BadLists :
          /\ handler' = update_ignore_list(handler, l)
          /\ raised' = update_ignore_list_raised(handler, l)
    /\ pc' = "returned"
    /\ op' = "update_ignore_list"
    /\ transcript' = None
    /\ agent_is_speaking' = FALSE
    /\ verdict' = FALSE
    /\ reason' = ""
    /\ UNCHANGED aux

NextRaise ==
    \/ CallShouldIgnoreInterrupt
    \/ CallGetInterruptReason
    \/ CallUpdateIgnoreList
    \/ CallUpdateIgnoreListRaising
    \/ SetEnabled
    \/ Resume

SpecRaise == Init /\ [][NextRaise]_vars

----------------------------------------------------------------------------
(* Several handlers constructed from one InterruptionHandlerConfig object:   *)
(* handler.config is the object, which every sibling's self._config is too *)

\* the ignore lists the shared configuration is constructed with or updated to
SharedLists == {DefaultIgnoreList, <<W_uh>>}

\* the sibling whose self._ignore_list_lower is siblings[i]
Sibling(i) == [config |-> handler.config, _ignore_list_lower |-> siblings[i]]

InitShared ==
    /\ handler \in {InterruptionHandler(InterruptionHandlerConfig(l, e)) :
                        l \in SharedLists, e \in BOOLEAN}
    /\ HostIdle
    /\ NoHistory
    /\ Unshared
    /\ SingleThreaded
    /\ ModuleLoaded

\* the host constructs InterruptionHandler(config) from the same object
ConstructSibling ==
    /\ pc = "idle"
    /\ Len(siblings) < MaxSiblings
    /\ siblings' =
          Append(siblings, InterruptionHandler(handler.config)._ignore_list_lower)
    /\ UNCHANGED <<handler, pc, op, transcript, agent_is_speaking, verdict,
                   reason, raised, history, threads, globals>>

\* the host calls update_ignore_list(l) on the first handler
FirstUpdateIgnoreList ==
    /\ \E l \in SharedLists : UpdateIgnoreList(l)
    /\ UNCHANGED aux

\* the host calls update_ignore_list(l) on a sibling: the list goes to the
\* shared object, the normalized set to the sibling
SiblingUpdateIgnoreList ==
    /\ pc = "idle"
    /\ \E i \in 1..Len(siblings), l \in SharedLists :
          LET after == update_ignore_list(Sibling(i), l)
          IN  /\ handler' = [handler EXCEPT !.config = after.config]
              /\ siblings' = [siblings EXCEPT ![i] = after._ignore_list_lower]
    /\ UNCHANGED <<pc, op, transcript, agent_is_speaking, verdict, reason,
                   raised, history, threads, globals>>

NextShared ==
    \/ ConstructSibling
    \/ FirstUpdateIgnoreList
    \/ SiblingUpdateIgnoreList
    \/ CallShouldIgnoreInterrupt
    \/ CallGetInterruptReason
    \/ Resume

SpecShared == InitShared /\ [][NextShared]_vars

----------------------------------------------------------------------------
(* Two threads on one handler: one inside a classification call, the other  *)
(* inside update_ignore_list.  A step is one read or one assignment of an    *)
(* attribute of the handler; the code takes no lock.                         *)

\* the ignore lists the handler is constructed with or updated to
ConcLists == {<<W_uh>>, <<W_huh>>, DefaultIgnoreList}

\* the transcripts of the in-flight call
ConcTexts ==
    {Str(s) : s \in {T_uh_huh, T_yeah_okay, T_yeah, T_no_stop, T_dots, <<>>}}

InitConc ==
    /\ handler \in {InterruptionHandler(InterruptionHandlerConfig(l, e)) :
                        l \in ConcLists, e \in BOOLEAN}
    /\ HostIdle
    /\ NoHistory
    /\ Unshared
    /\ SingleThreaded
    /\ ModuleLoaded

\* the call begins: should_ignore_interrupt tests enabled and the transcript
\* and extracts the words; get_interrupt_reason extracts the words and
\* tests them
ReaderStart ==
    /\ pc = "idle"
    /\ reader.pc = "idle"
    /\ \E o \in {"should_ignore_interrupt", "get_interrupt_reason"},
          t \in ConcTexts, s \in BOOLEAN :
          LET guard == o = "should_ignore_interrupt"
                          /\ (~handler.config.enabled \/ ~truthy(t))
              words == IF guard THEN <<>> ELSE _extract_words(t).words
              early == guard \/ (o = "get_interrupt_reason" /\ words = <<>>)
          IN  reader' = [pc |-> IF early THEN "return" ELSE "loop",
                         op |-> o, t |-> t, s |-> s, early |-> early,
                         words |-> words, i |-> 1, found |-> FALSE,
                         seen |-> {}]
    /\ UNCHANGED <<handler, pc, op, transcript, agent_is_speaking, verdict,
                   reason, raised, history, siblings, updater, callers,
                   globals>>

\* _has_non_filler_words, one turn of its loop: the next word is tested
\* against the set self._ignore_list_lower holds now
ReaderIter ==
    /\ reader.pc = "loop"
    /\ reader' =
          IF reader.i > Len(reader.words)
          THEN [reader EXCEPT !.pc = "return"]
          ELSE IF reader.words[reader.i] \notin handler._ignore_list_lower
          THEN [reader EXCEPT !.pc = "return", !.found = TRUE,
                              !.seen = @ \union {handler._ignore_list_lower}]
          ELSE [reader EXCEPT !.i = @ + 1,
                              !.seen = @ \union {handler._ignore_list_lower}]
    /\ UNCHANGED <<handler, pc, op, transcript, agent_is_speaking, verdict,
                   reason, raised, history, siblings, updater, callers,
                   globals>>

\* the call returns its result
ReaderReturn ==
    /\ reader.pc = "return"
    /\ reader' = [reader EXCEPT !.pc = "done"]
    /\ pc' = "returned"
    /\ op' = reader.op
    /\ transcript' = reader.t
    /\ agent_is_speaking' = reader.s
    /\ verdict' =
          IF reader.op # "should_ignore_interrupt" THEN FALSE
          ELSE IF reader.early \/ reader.found THEN FALSE
          ELSE IF reader.words = <<>> THEN FALSE
          ELSE reader.s
    /\ reason' =
          IF reader.op # "get_interrupt_reason" THEN ""
          ELSE IF reader.words = <<>> THEN EmptyTranscript
          ELSE IF reader.found THEN ContainsSemanticContent
          ELSE IF reader.s THEN IgnoredAgentSpeaking
          ELSE AgentSilent
    /\ raised' = ""
    /\ UNCHANGED <<handler, history, siblings, updater, callers,
                   globals>>

\* the caller has taken the result
ReaderResume ==
    /\ pc = "returned"
    /\ pc' = "idle"
    /\ op' = ""
    /\ transcript' = None
    /\ agent_is_speaking' = FALSE
    /\ verdict' = FALSE
    /\ reason' = ""
    /\ raised' = ""
    /\ reader' = IdleReader
    /\ UNCHANGED <<handler, history, siblings, updater, callers,
                   globals>>

\* update_ignore_list: self._config.ignore_list = new_ignore_list
UpdaterAssignList ==
    /\ updater.pc = "idle"
    /\ \E l \in ConcLists :
          handler' = [handler EXCEPT !.config.ignore_list = l]
    /\ updater' = [pc |-> "assigned"]
    /\ UNCHANGED <<pc, op, transcript, agent_is_speaking, verdict, reason,
                   raised, history, siblings, reader, callers,
                   globals>>

\* update_ignore_list: self._normalize_ignore_list() assigns the new set
UpdaterNormalize ==
    /\ updater.pc = "assigned"
    /\ handler' = [handler EXCEPT
                      !._ignore_list_lower = _normalize_ignore_list(handler.config)]
    /\ updater' = IdleUpdater
    /\ UNCHANGED <<pc, op, transcript, agent_is_speaking, verdict, reason,
                   raised, history, siblings, reader, callers,
                   globals>>

NextConc ==
    \/ ReaderStart
    \/ ReaderIter
    \/ ReaderReturn
    \/ ReaderResume
    \/ UpdaterAssignList
    \/ UpdaterNormalize

SpecConc == InitConc /\ [][NextConc]_vars

----------------------------------------------------------------------------
(* Several threads on one handler, each making classification calls, so     *)
(* that calls overlap.  A step is one read of an attribute of the handler;  *)
(* the handler's configuration is fixed.                                    *)

InitOverlap ==
    /\ handler \in {InterruptionHandler(InterruptionHandlerConfig(l, e)) :
                        l \in ConcLists, e \in BOOLEAN}
    /\ HostIdle
    /\ NoHistory
    /\ Unshared
    /\ SingleThreaded
    /\ ModuleLoaded

\* another caller than c is inside a call
OtherInCall(c) ==
    \E d \in Callers \ {c} : callers[d].pc \in {"loop", "return"}

\* the rest of the state, which a step of a caller does not touch
CallerFrame ==
    UNCHANGED <<pc, op, transcript, agent_is_speaking, verdict, reason, raised,
                history, siblings, reader, updater, globals>>

\* caller c begins a call: should_ignore_interrupt tests enabled and the
\* transcript and extracts the words; get_interrupt_reason extracts the words
\* and tests them
CallerStart(c) ==
    /\ callers[c].pc = "idle"
    /\ \E o \in {"should_ignore_interrupt", "get_interrupt_reason"},
          t \in ConcTexts, s \in BOOLEAN :
          LET guard == o = "should_ignore_interrupt"
                          /\ (~handler.config.enabled \/ ~truthy(t))
              words == IF guard THEN <<>> ELSE _extract_words(t).words
              early == guard \/ (o = "get_interrupt_reason" /\ words = <<>>)
          IN  callers' = [callers EXCEPT ![c] =
                  [pc |-> IF early THEN "return" ELSE "loop",
                   op |-> o, t |-> t, s |-> s, early |-> early,
                   words |-> words, i |-> 1, found |-> FALSE,
                   verdict |-> FALSE, reason |-> "",
                   overlapped |-> OtherInCall(c)]]
    /\ UNCHANGED handler
    /\ CallerFrame

\* _has_non_filler_words, one turn of caller c's loop
CallerIter(c) ==
    /\ callers[c].pc = "loop"
    /\ LET r == [callers[c] EXCEPT !.overlapped = @ \/ OtherInCall(c)]
       IN  callers' = [callers EXCEPT ![c] =
               IF r.i > Len(r.words)
               THEN [r EXCEPT !.pc = "return"]
               ELSE IF r.words[r.i] \notin handler._ignore_list_lower
               THEN [r EXCEPT !.pc = "return", !.found = TRUE]
               ELSE [r EXCEPT !.i = @ + 1]]
    /\ UNCHANGED handler
    /\ CallerFrame

\* caller c's call returns its result; the handler is as the call leaves it
CallerReturn(c) ==
    /\ callers[c].pc = "return"
    /\ LET r == callers[c]
       IN  /\ callers' = [callers EXCEPT ![c] =
                 [r EXCEPT
                    !.pc = "done",
                    !.overlapped = @ \/ OtherInCall(c),
                    !.verdict =
                       IF r.op # "should_ignore_interrupt" THEN FALSE
                       ELSE IF r.early \/ r.found THEN FALSE
                       ELSE IF r.words = <<>> THEN FALSE
                       ELSE r.s,
                    !.reason =
                       IF r.op # "get_interrupt_reason" THEN ""
                       ELSE IF r.words = <<>> THEN EmptyTranscript
                       ELSE IF r.found THEN ContainsSemanticContent
                       ELSE IF r.s THEN IgnoredAgentSpeaking
                       ELSE AgentSilent]]
           /\ handler' =
                 IF r.op = "should_ignore_interrupt"
                 THEN should_ignore_interrupt_self(handler, r.t, r.s, "None")
                 ELSE get_interrupt_reason_self(handler, r.t, r.s)
    /\ CallerFrame

\* caller c has taken the result
CallerResume(c) ==
    /\ callers[c].pc = "done"
    /\ callers' = [callers EXCEPT ![c] = IdleCaller]
    /\ UNCHANGED handler
    /\ CallerFrame

NextOverlap ==
    \/ \E c \in Callers : CallerStart(c)
    \/ \E c \in Callers : CallerIter(c)
    \/ \E c \in Callers : CallerReturn(c)
    \/ \E c \in Callers : CallerResume(c)

SpecOverlap == InitOverlap /\ [][NextOverlap]_vars

----------------------------------------------------------------------------
(* The module's default handler: threads in get_default_handler and the    *)
(* host calling set_default_handler.  A step is one read or one assignment  *)
(* of the global _default_handler; the code takes no lock.                  *)

\* the rest of the state, which these functions do not touch
HandlerUntouched ==
    UNCHANGED <<handler, pc, op, transcript, agent_is_speaking, verdict, reason,
                raised, history, siblings, threads>>

InitDefault ==
    /\ handler = InterruptionHandler(InterruptionHandlerConfig(DefaultIgnoreList, TRUE))
    /\ HostIdle
    /\ NoHistory
    /\ Unshared
    /\ SingleThreaded
    /\ ModuleLoaded

\* thread t calls get_default_handler()
GetCall(t) ==
    /\ getters[t].pc = "idle"
    /\ getters' = [getters EXCEPT ![t] = [pc |-> "test", result |-> NoneHandler]]
    /\ UNCHANGED <<default_handler, created, installed>>
    /\ HandlerUntouched

\* if _default_handler is None:
GetTest(t) ==
    /\ getters[t].pc = "test"
    /\ getters' = [getters EXCEPT ![t].pc =
                      IF default_handler = NoneHandler THEN "create" ELSE "return"]
    /\ UNCHANGED <<default_handler, created, installed>>
    /\ HandlerUntouched

\* _default_handler = InterruptionHandler()
GetCreate(t) ==
    /\ getters[t].pc = "create"
    /\ created < MaxCreated
    /\ created' = created + 1
    /\ default_handler' = Lazy(created + 1)
    /\ getters' = [getters EXCEPT ![t].pc = "return"]
    /\ UNCHANGED installed
    /\ HandlerUntouched

\* return _default_handler
GetReturn(t) ==
    /\ getters[t].pc = "return"
    /\ getters' = [getters EXCEPT ![t] = [pc |-> "idle", result |-> default_handler]]
    /\ UNCHANGED <<default_handler, created, installed>>
    /\ HandlerUntouched

\* the host calls set_default_handler(h)
SetDefaultHandler ==
    /\ \E h \in HostHandlers :
          /\ default_handler' = h
          /\ installed' = h
    /\ UNCHANGED <<getters, created>>
    /\ HandlerUntouched

NextDefault ==
    \/ \E t \in Getters : GetCall(t)
    \/ \E t \in Getters : GetTest(t)
    \/ \E t \in Getters : GetCreate(t)
    \/ \E t \in Getters : GetReturn(t)
    \/ SetDefaultHandler

SpecDefault == InitDefault /\ [][NextDefault]_vars

----------------------------------------------------------------------------
(* The same host, with the history of the ignore lists *)

\* the ignore lists the tracked handler is constructed with or updated to
HistoryLists ==
    {DefaultIgnoreList, <<W_uh>>, <<W_Yeah_padded, W_OK, W_Hmm_padded>>, <<>>}

InitUpdate ==
    /\ \E l \in HistoryLists, e \in BOOLEAN :
          /\ handler = InterruptionHandler(InterruptionHandlerConfig(l, e))
          /\ supplied = l
          /\ earlier = l
    /\ HostIdle
    /\ Unshared
    /\ SingleThreaded
    /\ ModuleLoaded

\* the host calls handler.update_ignore_list(l), and the call returns
TrackedUpdateIgnoreList ==
    \E l \in HistoryLists :
        /\ UpdateIgnoreList(l)
        /\ supplied' = l
        /\ earlier' = supplied
        /\ UNCHANGED <<siblings, threads, globals>>

NextUpdate ==
    \/ CallShouldIgnoreInterrupt
    \/ CallGetInterruptReason
    \/ TrackedUpdateIgnoreList
    \/ SetEnabled
    \/ Resume

SpecUpdate == InitUpdate /\ [][NextUpdate]_vars

----------------------------------------------------------------------------
(* Shorthands of the claims *)

Returned(o) == pc = "returned" /\ op = o

\* the token sequence of the call's transcript (a str)
Tokens == findall_words(lower(transcript.text))

\* the normalized filler set
FillerSet == handler._ignore_list_lower

TypeOK ==
    /\ pc \in {"idle", "returned"}
    /\ op \in {"", "should_ignore_interrupt", "get_interrupt_reason",
               "update_ignore_list"}
    /\ transcript \in Transcripts
    /\ agent_is_speaking \in BOOLEAN
    /\ verdict \in BOOLEAN
    /\ reason \in ReasonCodes \cup {""}
    /\ raised \in {"", "AttributeError"}

\* every token of the call's transcript is in the normalized filler set
AllFiller == \A i \in 1..Len(Tokens) : Tokens[i] \in FillerSet

\* some token of the call's transcript is outside the normalized filler set
SomeNonFiller == \E i \in 1..Len(Tokens) : Tokens[i] \notin FillerSet

----------------------------------------------------------------------------
(* The claims *)

\* C1: with the handler enabled, a transcript with at least one token, all of
\* them in the filler set, is ignored when the agent speaks and answered when
\* it is silent: the verdict of the call is agent_is_speaking, and the same
\* transcript gets opposite verdicts in the two speaking states.
C1_FillerOnlyFollowsSpeaking ==
    ( /\ Returned("should_ignore_interrupt")
      /\ handler.config.enabled
      /\ ~transcript.none
      /\ Tokens # <<>>
      /\ AllFiller )
    => /\ verdict = agent_is_speaking
       /\ should_ignore_interrupt(handler, transcript, TRUE, "None") = TRUE
       /\ should_ignore_interrupt(handler, transcript, FALSE, "None") = FALSE

C1_Witness ==
    /\ Returned("should_ignore_interrupt")
    /\ handler.config.enabled
    /\ handler.config.ignore_list = DefaultIgnoreList
    /\ transcript = Str(T_yeah_okay)
    /\ Len(Tokens) = 2
    /\ AllFiller
    /\ agent_is_speaking
    /\ verdict = TRUE

\* C2: a transcript with a token outside the filler set is answered (False)
\* in both speaking states, however many filler tokens it also holds and
\* wherever the non-filler token sits.
C2_NonFillerAlwaysResponds ==
    ( /\ Returned("should_ignore_interrupt")
      /\ ~transcript.none
      /\ SomeNonFiller )
    => /\ verdict = FALSE
       /\ should_ignore_interrupt(handler, transcript, TRUE, "None") = FALSE
       /\ should_ignore_interrupt(handler, transcript, FALSE, "None") = FALSE

\* the non-filler tokens come last, after two filler tokens, the agent speaks
C2_Witness ==
    /\ Returned("should_ignore_interrupt")
    /\ handler.config.enabled
    /\ handler.config.ignore_list = DefaultIgnoreList
    /\ transcript = Str(T_yeah_okay_but_wait)
    /\ Tokens[1] \in FillerSet
    /\ Tokens[2] \in FillerSet
    /\ Tokens[4] \notin FillerSet
    /\ agent_is_speaking
    /\ verdict = FALSE

\* C3: whatever the filler list, the enabled flag and the transcript, a call
\* with agent_is_speaking = false returns False.
C3_SilentAgentAlwaysResponds ==
    (Returned("should_ignore_interrupt") /\ ~agent_is_speaking)
    => verdict = FALSE

C3_Witness ==
    /\ Returned("should_ignore_interrupt")
    /\ ~agent_is_speaking
    /\ handler.config.enabled
    /\ transcript = Str(T_yeah)
    /\ AllFiller
    /\ verdict = FALSE

\* C4: a transcript that tokenizes to the empty sequence ("", whitespace or
\* punctuation only) is answered (False) in both speaking states.
C4_NoTokensResponds ==
    ( /\ Returned("should_ignore_interrupt")
      /\ ~transcript.none
      /\ Tokens = <<>> )
    => /\ verdict = FALSE
       /\ should_ignore_interrupt(handler, transcript, TRUE, "None") = FALSE
       /\ should_ignore_interrupt(handler, transcript, FALSE, "None") = FALSE

\* punctuation only: the transcript is truthy and has no token
C4_Witness ==
    /\ Returned("should_ignore_interrupt")
    /\ handler.config.enabled
    /\ transcript = Str(T_dots)
    /\ Tokens = <<>>
    /\ agent_is_speaking
    /\ verdict = FALSE

\* C5: when config.enabled is false at the call, the call returns False for
\* every transcript, speaking state and filler list; when it is true, the
\* normal rule applies (a filler-only transcript is ignored while the agent
\* speaks).
C5_DisabledAlwaysResponds ==
    Returned("should_ignore_interrupt")
    => /\ ~handler.config.enabled => verdict = FALSE
       /\ ( /\ handler.config.enabled
            /\ ~transcript.none
            /\ Tokens # <<>>
            /\ AllFiller
            /\ agent_is_speaking ) => verdict = TRUE

\* disabled, and the normal rule would have ignored the transcript
C5_Witness ==
    /\ Returned("should_ignore_interrupt")
    /\ ~handler.config.enabled
    /\ transcript = Str(T_yeah)
    /\ AllFiller
    /\ agent_is_speaking
    /\ verdict = FALSE

\* C6: get_interrupt_reason never disagrees with should_ignore_interrupt: on
\* the same handler state and the same inputs it returns
\* passive_acknowledgement_ignored_agent_speaking exactly when
\* should_ignore_interrupt returns True.
C6_ReasonAgreesWithVerdict ==
    Returned("get_interrupt_reason")
    => ( (raised = "" /\ reason = IgnoredAgentSpeaking)
         <=> should_ignore_interrupt(handler, transcript, agent_is_speaking, "None") )

\* C7: for a transcript that is a str, get_interrupt_reason returns one of
\* the four reason codes, chosen in this order: empty_transcript when there
\* is no token; otherwise contains_semantic_content exactly when some token
\* is outside the filler set (and should_ignore_interrupt then returns
\* False); otherwise the passive_acknowledgement code of the speaking state.
C7_ReasonCodeOrder ==
    (Returned("get_interrupt_reason") /\ ~transcript.none)
    => /\ raised = ""
       /\ reason \in ReasonCodes
       /\ reason = ( IF Tokens = <<>> THEN EmptyTranscript
                     ELSE IF SomeNonFiller THEN ContainsSemanticContent
                     ELSE IF agent_is_speaking THEN IgnoredAgentSpeaking
                     ELSE AgentSilent )
       /\ reason = ContainsSemanticContent
            => /\ ~should_ignore_interrupt(handler, transcript, TRUE, "None")
               /\ ~should_ignore_interrupt(handler, transcript, FALSE, "None")

\* all filler, agent silent: the last of the four codes
C7_Witness ==
    /\ Returned("get_interrupt_reason")
    /\ handler.config.ignore_list = Scenario1IgnoreList
    /\ transcript = Str(T_yeah)
    /\ AllFiller
    /\ ~agent_is_speaking
    /\ reason = AgentSilent

\* C8: no call fails: for every transcript, None included, both methods
\* return a value and raise nothing.
C8_NoCallRaises == pc = "returned" => raised = ""

\* C9: with ignore_list = ["yeah", "ok", "okay", "hmm", "right", "uh-huh"]
\* and the agent speaking, the transcripts "uh-huh" and "okay yeah uh-huh"
\* are ignored (should_ignore_interrupt returns True).
C9_ListedHyphenatedIgnored ==
    ( /\ Returned("should_ignore_interrupt")
      /\ handler.config.ignore_list = Scenario1IgnoreList
      /\ handler.config.enabled
      /\ transcript \in {Str(T_uh_huh), Str(T_okay_yeah_uh_huh)}
      /\ agent_is_speaking )
    => verdict = TRUE

\* C10, as stated: the transcript "uh-huh" has the two tokens "uh" and "huh",
\* and with the agent speaking it is ignored exactly when "uh" and "huh" are
\* both in the filler set, whatever else the handler's state.
C10_SplitDecidesVerdict ==
    ( /\ Returned("should_ignore_interrupt")
      /\ transcript = Str(T_uh_huh)
      /\ agent_is_speaking )
    => /\ _extract_words(transcript).words = <<W_uh, W_huh>>
       /\ verdict <=> (W_uh \in FillerSet /\ W_huh \in FillerSet)

\* C10, amended: the same for an enabled handler. The literal entry "uh-huh"
\* has no part in it, and the default list, holding both, ignores it.
C10_SplitDecidesVerdictWhenEnabled ==
    ( /\ Returned("should_ignore_interrupt")
      /\ handler.config.enabled
      /\ transcript = Str(T_uh_huh)
      /\ agent_is_speaking )
    => /\ _extract_words(transcript).words = <<W_uh, W_huh>>
       /\ verdict <=> (W_uh \in FillerSet /\ W_huh \in FillerSet)
       /\ handler.config.ignore_list = DefaultIgnoreList => verdict = TRUE

\* "uh-huh" is ignored by a list that holds "uh" and "huh" and not "uh-huh"
C10_Witness ==
    /\ Returned("should_ignore_interrupt")
    /\ handler.config.enabled
    /\ handler.config.ignore_list = <<W_uh, W_huh>>
    /\ W_uh_huh \notin FillerSet
    /\ transcript = Str(T_uh_huh)
    /\ agent_is_speaking
    /\ verdict = TRUE

\* the positions of t that hold a letter
LetterPositions(t) ==
    {i \in 1..Len(t) : upper_char(t[i]) # <<t[i]>> \/ lower_char(t[i]) # t[i]}

\* t spelled with the letters at the positions P in upper case and the others
\* in lower case, from position i on
RECURSIVE Spell(_, _, _)
Spell(t, P, i) ==
    IF i > Len(t) THEN <<>>
    ELSE (IF i \in P THEN upper_char(t[i]) ELSE <<lower_char(t[i])>>)
         \o Spell(t, P, i + 1)

\* upper-casing a character of t and lower-casing it again gives its lower case
CaseRoundTrips(t) ==
    \A i \in 1..Len(t) : lower(upper_char(t[i])) = <<lower_char(t[i])>>

\* w is one token: a non-empty run of \w characters
IsWord(w) == w # <<>> /\ \A i \in 1..Len(w) : is_word_char(w[i])

\* every entry of the ignore list, whatever its case and padding, makes its
\* lower-case token a filler: alone in a transcript it is ignored while the
\* agent speaks (by an enabled handler)
EntriesMatchLowerCaseToken ==
    \A i \in 1..Len(handler.config.ignore_list) :
        LET w == strip(lower(handler.config.ignore_list[i]))
        IN  IsWord(w) =>
              should_ignore_interrupt(handler, Str(w), TRUE, "None")
                = handler.config.enabled

\* the verdict of the call is the verdict for every case spelling of its transcript
SameVerdictInEveryCase ==
    /\ verdict = should_ignore_interrupt(handler, Str(upper(transcript.text)),
                                         agent_is_speaking, "None")
    /\ \A P \in SUBSET LetterPositions(transcript.text) :
          verdict = should_ignore_interrupt(handler, Str(Spell(transcript.text, P, 1)),
                                            agent_is_speaking, "None")

\* C14, as stated: a filler-only transcript gets the same verdict in upper
\* case and in every mixed-case spelling, and a list entry in upper or mixed
\* case or padded with whitespace matches the lower-case token.
C14_CaseInsensitive ==
    /\ ( /\ Returned("should_ignore_interrupt")
         /\ ~transcript.none
         /\ Tokens # <<>>
         /\ AllFiller )
       => SameVerdictInEveryCase
    /\ EntriesMatchLowerCaseToken

\* C14, amended: the same for the transcripts whose characters lower-case back
\* after upper-casing (every ASCII transcript).
C14_CaseInsensitiveRoundTrip ==
    /\ ( /\ Returned("should_ignore_interrupt")
         /\ ~transcript.none
         /\ Tokens # <<>>
         /\ AllFiller
         /\ CaseRoundTrips(transcript.text) )
       => SameVerdictInEveryCase
    /\ EntriesMatchLowerCaseToken

\* an upper-case transcript is ignored through a padded, mixed-case entry
C14_Witness ==
    /\ Returned("should_ignore_interrupt")
    /\ handler.config.enabled
    /\ handler.config.ignore_list = <<W_Yeah_padded, W_OK, W_Hmm_padded>>
    /\ transcript = Str(T_YEAH_OK_HMM)
    /\ CaseRoundTrips(transcript.text)
    /\ AllFiller
    /\ agent_is_speaking
    /\ verdict = TRUE

\* C15, as stated: with an empty filler list every non-empty transcript is
\* answered (False) in both speaking states and its reason is
\* contains_semantic_content.
C15_EmptyListAllSemantic ==
    ( /\ pc = "returned"
      /\ handler.config.ignore_list = <<>>
      /\ ~transcript.none
      /\ transcript.text # <<>> )
    => /\ op = "should_ignore_interrupt" => verdict = FALSE
       /\ op = "get_interrupt_reason" => reason = ContainsSemanticContent

\* C15, amended: with an empty filler list every transcript with at least one
\* token is answered (False) in both speaking states and its reason is
\* contains_semantic_content; a non-empty transcript with no token is
\* answered too, and its reason is empty_transcript.
C15_EmptyListTokensSemantic ==
    ( /\ pc = "returned"
      /\ handler.config.ignore_list = <<>>
      /\ ~transcript.none
      /\ transcript.text # <<>> )
    => /\ FillerSet = {}
       /\ op = "should_ignore_interrupt" => verdict = FALSE
       /\ op = "get_interrupt_reason"
            => reason = ( IF Tokens # <<>> THEN ContainsSemanticContent
                          ELSE EmptyTranscript )

\* a word of the default list, the agent speaking, after the list was emptied
C15_Witness ==
    /\ Returned("get_interrupt_reason")
    /\ handler.config.ignore_list = <<>>
    /\ transcript = Str(T_yeah)
    /\ agent_is_speaking
    /\ reason = ContainsSemanticContent

\* C16: the verdict of a call is the verdict of the same call on a handler
\* that differs in verbose_logging and min_interrupt_words only, with any
\* current_agent_state.
C16_VerdictIgnoresOtherFields ==
    Returned("should_ignore_interrupt")
    => \A v \in BOOLEAN, m \in MinInterruptWords, a \in AgentStates :
          should_ignore_interrupt(
              [handler EXCEPT !.config.verbose_logging = v,
                              !.config.min_interrupt_words = m],
              transcript, agent_is_speaking, a) = verdict

\* two filler words are ignored by a verbose handler whose threshold is 0
C16_Witness ==
    /\ Returned("should_ignore_interrupt")
    /\ handler.config.verbose_logging
    /\ handler.config.min_interrupt_words = 0
    /\ handler.config.enabled
    /\ transcript = Str(T_yeah_okay)
    /\ agent_is_speaking
    /\ verdict = TRUE

\* C18: for every filler list, str transcript and speaking state, an enabled
\* InterruptionHandler returns what InterruptionHandlerStandalone, built from
\* the same list, returns.
C18_ProductionEqualsStandalone ==
    ( /\ Returned("should_ignore_interrupt")
      /\ handler.config.enabled
      /\ ~transcript.none )
    => verdict = standalone_should_ignore_interrupt(
                     InterruptionHandlerStandalone(handler.config.ignore_list),
                     transcript, agent_is_speaking)

\* punctuation only, where the two implementations test in a different order
C18_Witness ==
    /\ Returned("should_ignore_interrupt")
    /\ handler.config.enabled
    /\ transcript = Str(T_dots)
    /\ agent_is_speaking
    /\ verdict = FALSE
    /\ ~standalone_should_ignore_interrupt(
           InterruptionHandlerStandalone(handler.config.ignore_list),
           transcript, agent_is_speaking)

\* the normalization of the list most recently supplied
LatestFillerSet == {strip(lower(supplied[i])) : i \in 1..Len(supplied)}

\* C11: after the handler is constructed with a list, or update_ignore_list
\* has returned, every call treats a token as filler exactly when it is in
\* the normalization of that latest list: words of the default list or of an
\* earlier list that are not in it count as non-filler.
C11_LatestListInEffect ==
    /\ FillerSet = LatestFillerSet
    /\ (Returned("should_ignore_interrupt") /\ ~transcript.none)
       => verdict = ( /\ handler.config.enabled
                      /\ Tokens # <<>>
                      /\ \A i \in 1..Len(Tokens) : Tokens[i] \in LatestFillerSet
                      /\ agent_is_speaking )
    /\ (Returned("get_interrupt_reason") /\ ~transcript.none /\ Tokens # <<>>)
       => ( reason = ContainsSemanticContent
            <=> \E i \in 1..Len(Tokens) : Tokens[i] \notin LatestFillerSet )

\* "yeah" was a filler of the earlier (default) list and is not in the latest
C11_Witness ==
    /\ Returned("get_interrupt_reason")
    /\ earlier = DefaultIgnoreList
    /\ supplied = <<W_uh>>
    /\ transcript = Str(T_yeah)
    /\ agent_is_speaking
    /\ reason = ContainsSemanticContent

\* caller c's call has returned with the result a handler freshly
\* constructed from the configuration gives on the call's arguments
ResultOfFreshHandler(c) ==
    LET r == callers[c]
        fresh == InterruptionHandler(handler.config)
    IN  IF r.op = "should_ignore_interrupt"
        THEN r.verdict = should_ignore_interrupt(fresh, r.t, r.s, "None")
        ELSE r.reason = get_interrupt_reason(fresh, r.t, r.s).reason

\* C17: the classifier is stateless across calls. No step of a
\* should_ignore_interrupt or get_interrupt_reason call changes
\* config.ignore_list, config.enabled or the normalized filler set, and every
\* call returns the result a handler freshly constructed from the
\* configuration gives, whatever number and order of calls of this caller and
\* of the other came before it and whichever of them overlapped it.
C17_ClassificationKeepsState ==
    /\ [][handler' = handler]_vars
    /\ [](\A c \in Callers : callers[c].pc = "done" => ResultOfFreshHandler(c))

\* a call has returned that another caller's call overlapped, while that
\* other call, begun on a different transcript, is still in its loop
C17_Witness ==
    /\ handler.config.ignore_list = DefaultIgnoreList
    /\ handler.config.enabled
    /\ callers[1].pc = "done"
    /\ callers[1].op = "should_ignore_interrupt"
    /\ callers[1].t = Str(T_yeah_okay)
    /\ callers[1].s
    /\ callers[1].verdict = TRUE
    /\ callers[1].overlapped
    /\ callers[2].pc = "loop"
    /\ callers[2].op = "get_interrupt_reason"
    /\ callers[2].t = Str(T_no_stop)
    /\ callers[2].overlapped

\* C19: when update_ignore_list raises, config.ignore_list and
\* _ignore_list_lower both keep the values they had before the call.
C19_UpdateAllOrNothing ==
    [][(pc = "idle" /\ op' = "update_ignore_list" /\ raised' # "")
         => handler' = handler]_vars

\* C13: the derived filler set is never stale. Whatever handlers were
\* constructed from the configuration object and whichever of them had
\* update_ignore_list called, at every classification call on the first handler
\* its _ignore_list_lower, and every sibling's, is the normalized set of the
\* configuration's current ignore_list.
C13_DerivedSetNeverStale ==
    (Returned("should_ignore_interrupt") \/ Returned("get_interrupt_reason"))
        => /\ handler._ignore_list_lower = _normalize_ignore_list(handler.config)
           /\ \A i \in 1..Len(siblings) :
                 siblings[i] = _normalize_ignore_list(handler.config)

\* the result the returned call would have had against the one filler set X
\* for all its tokens
ResultAgainst(X) ==
    LET self == [handler EXCEPT !._ignore_list_lower = X]
    IN  IF op = "should_ignore_interrupt"
        THEN verdict =
               should_ignore_interrupt(self, transcript, agent_is_speaking, "None")
        ELSE reason =
               get_interrupt_reason(self, transcript, agent_is_speaking).reason

\* C12: a classification call that runs while update_ignore_list(L2) runs
\* tests all its tokens against one filler set, the old one or the new one:
\* no call tests some tokens against L1 and others against L2.
C12_CallSeesOneFillerSet ==
    (Returned("should_ignore_interrupt") \/ Returned("get_interrupt_reason"))
        => Cardinality(reader.seen) <= 1

\* a call that tested its tokens against one set returns the result of the
\* sequential code for that set
ConcOneSetAgrees ==
    (pc = "returned" /\ Cardinality(reader.seen) <= 1)
        => \A X \in reader.seen : ResultAgainst(X)

\* C20: the default handler is unique. While set_default_handler was never
\* called, all get_default_handler calls, racing ones included, return one
\* instance, and only one is ever created; once set_default_handler was
\* called, _default_handler is the handler it was last given: no lazy
\* creation overwrites it.
C20_DefaultHandlerUnique ==
    /\ installed = NoneHandler
         => /\ created <= 1
            /\ \A t, u \in Getters :
                  (getters[t].result # NoneHandler /\ getters[u].result # NoneHandler)
                     => getters[t].result = getters[u].result
    /\ installed # NoneHandler => default_handler = installed

====
